---- MODULE Spec2Model ----
(***************************************************************************)
(* A model of the two stores of the repository:                            *)
(*   - backend/admin.py: the admin panel, whose handlers read the whole    *)
(*     JSON document data.json (load_data), change it in memory and write  *)
(*     it back (save_data);                                                *)
(*   - backend/database.py: the SQLite store (users, files, chats,         *)
(*     orders) and the uploaded blobs on disk.                             *)
(* Every handler is one action.  The variable `last` records the call that *)
(* was served last, with its arguments and its response, so that what a    *)
(* call returns can be stated as a property of a state.                    *)
(***************************************************************************)
EXTENDS Integers, Sequences, FiniteSets, TLC

VARIABLES data,    \* admin.py: the content of DATA_FILE (data.json)
          users,   \* database.py: table users
          files,   \* database.py: table files
          chats,   \* database.py: table chats
          orders,  \* database.py: table orders
          seq,     \* database.py: sqlite_sequence, the AUTOINCREMENT counters
          blobs,   \* the paths that exist on disk (os.path.exists)
          pending, \* the calls in progress, one per worker (request or connection)
          last     \* the last call served: [op, args, status, body], args being
                   \* the ids the call addressed

vars == <<data, users, files, chats, orders, seq, blobs, pending, last>>
dbvars == <<users, files, chats, orders, seq, blobs>>

----------------------------------------------------------------------------
(* Bounds of the model.                                                    *)

MaxProfileId == 2    \* Next offers create_profile while every listing id is below it
MaxMessages == 2     \* Next offers a message while data["messages"] has room for it
MaxInitProfiles == 2 \* listings (each with at most one comment) data.json may hold at start
MaxListingId == 4    \* NextListing offers create_profile while every listing id is below it
MaxPromocodes == 3   \* NextPromo offers create_admin_promocode while fewer are stored
MaxUsers == 1        \* telegram ids 1..MaxUsers sign in; 0..MaxUsers are passed as owner key
MaxFiles == 2        \* NextFiles offers add_file while fewer file ids were given out
MaxChats == 3        \* NextChats offers create_chat while fewer chat ids were given out
MaxChatListings == 1 \* chats are asked for the listings 1..MaxChatListings
MaxOrders == 2       \* NextOrders offers create_order while fewer order ids were given out
MaxUserRows == 2     \* NextUsers offers a first sign-in while fewer users rows are stored
MaxReadProfileId == 2 \* NextReads offers create_profile while every listing id is below it
MaxReadMessages == 1 \* NextReads offers a system message while fewer messages are stored
MaxSnapListingId == 1 \* NextSnapshot offers create_profile while every listing id is below it
MaxSnapMessages == 1 \* NextSnapshot offers a system message while fewer messages are stored
MaxSnapChats == 2    \* NextSnapshot offers create_chat while fewer chat ids were given out
MaxTxUsers == 1      \* NextTx offers a first sign-in while fewer user ids were given out
MaxTxFiles == 1      \* NextTx offers add_file while fewer file ids were given out

Names == {"Ann"}
Whitespace == {" "}
Texts == {<<>>, <<" ">>, <<"h">>}

----------------------------------------------------------------------------
(* Python helpers.                                                         *)

Range(s) == {s[i] : i \in DOMAIN s}

Min(S) == CHOOSE m \in S : \A x \in S : m <= x

\* max([...]) of a non-empty list of integers
max(S) == CHOOSE m \in S : \A x \in S : x <= m

\* [x[f] for x in s]
Column(s, f) == [i \in DOMAIN s |-> s[i][f]]

\* next((x for x in s if x[f] == v), None): the index of the first match, 0 for None
first_with(s, f, v) ==
    LET I == {i \in DOMAIN s : s[i][f] = v}
    IN IF I = {} THEN 0 ELSE Min(I)

\* [x for x in s if x[f] != v]
without(s, f, v) == SelectSeq(s, LAMBDA x : x[f] # v)

\* str.strip(): leading and trailing whitespace removed
RECURSIVE lstrip(_)
lstrip(t) == IF t # <<>> /\ Head(t) \in Whitespace THEN lstrip(Tail(t)) ELSE t

RECURSIVE rstrip(_)
rstrip(t) ==
    IF t # <<>> /\ t[Len(t)] \in Whitespace THEN rstrip(SubSeq(t, 1, Len(t) - 1)) ELSE t

strip(t) == rstrip(lstrip(t))

----------------------------------------------------------------------------
(* admin.py: the JSON document.                                            *)

\* The document load_data returns when DATA_FILE does not exist (settings are
\* not modelled: no handler modelled here reads them).
default_data ==
    [profiles |-> <<>>, chats |-> <<>>, messages |-> <<>>,
     comments |-> <<>>, promocodes |-> <<>>]

\* The disk as a handler finds it: DATA_FILE readable / writable.
Healthy == [readable |-> TRUE, writable |-> TRUE]

\* DATA_FILE can be read, but open(DATA_FILE, 'w') or the dump raises.
ReadOnly == [readable |-> TRUE, writable |-> FALSE]

\* DATA_FILE exists, but open(DATA_FILE, 'r') or json.loads raises.
Unreadable == [readable |-> FALSE, writable |-> TRUE]

\* load_data(): the content of DATA_FILE, or the default document when the file
\* cannot be read or parsed.
load_data(io) == IF io.readable THEN data ELSE default_data

\* save_data(d): the content of DATA_FILE afterwards; a failure is logged and
\* swallowed (the function returns False, which no handler looks at).
save_data(d, io) == IF io.writable THEN d ELSE data

\* save_uploaded_file(file): the URL of the stored upload, "" when storing fails
save_uploaded_file(file) ==
    IF file.stored THEN <<"/uploads/", file.filename>> ELSE <<>>

\* The uploads a multipart form may carry: a part without file name, a file
\* that is stored, a file whose storing fails.
Uploads ==
    {[filename |-> "", stored |-> FALSE],
     [filename |-> "a.jpg", stored |-> TRUE],
     [filename |-> "a.jpg", stored |-> FALSE]}

RECURSIVE stored_urls(_)
\* the loop over the uploads: the URLs of the named files that were stored
stored_urls(fs) ==
    IF fs = <<>> THEN <<>>
    ELSE LET f == Head(fs)
             url == IF f.filename # "" THEN save_uploaded_file(f) ELSE <<>>
         IN (IF url # <<>> THEN <<url>> ELSE <<>>) \o stored_urls(Tail(fs))

\* The record of a call: what was called, what it answered, and whether a
\* write of DATA_FILE failed while it was served.
Response(op, args, status, body) ==
    [op |-> op, args |-> args, status |-> status, body |-> body,
     write_failed |-> FALSE]

NoBody == <<>>

----------------------------------------------------------------------------
(* admin.py: listings.                                                     *)

\* create_profile numbering the new listing by the length of the list, as the
\* chats and the messages are numbered
create_profile_result_by_len(d, name, photos) ==
    LET photo_urls == stored_urls(photos)
        new_profile == [id |-> Len(d.profiles) + 1, name |-> name,
                        photos |-> photo_urls, visible |-> TRUE]
    IN IF photo_urls = <<>>
       THEN [data |-> d, saved |-> FALSE, status |-> 400, body |-> NoBody]
       ELSE [data |-> [d EXCEPT !.profiles = Append(@, new_profile)],
             saved |-> TRUE, status |-> 200, body |-> new_profile]

\* create_profile without the check of photo_urls
create_profile_result_unchecked(d, name, photos) ==
    LET max_id == IF d.profiles # <<>> THEN max(Range(Column(d.profiles, "id"))) ELSE 0
        new_profile == [id |-> max_id + 1, name |-> name,
                        photos |-> stored_urls(photos), visible |-> TRUE]
    IN [data |-> [d EXCEPT !.profiles = Append(@, new_profile)],
        saved |-> TRUE, status |-> 200, body |-> new_profile]

\* create_profile: the document and the response it produces
create_profile_result(d, name, photos) ==
    LET max_id == IF d.profiles # <<>> THEN max(Range(Column(d.profiles, "id"))) ELSE 0
        photo_urls == stored_urls(photos)
        new_profile == [id |-> max_id + 1, name |-> name,
                        photos |-> photo_urls, visible |-> TRUE]
    IN IF photo_urls = <<>>
       THEN [data |-> d, saved |-> FALSE, status |-> 400, body |-> NoBody]
       ELSE [data |-> [d EXCEPT !.profiles = Append(@, new_profile)],
             saved |-> TRUE, status |-> 200, body |-> new_profile]

\* One application of a handler's result: the document is written back only on
\* the paths that reach save_data.
Serve(op, args, r, io) ==
    /\ data' = IF r.saved THEN save_data(r.data, io) ELSE data
    /\ last' = [Response(op, args, r.status, r.body)
                 EXCEPT !.write_failed = r.saved /\ ~io.writable]
    /\ UNCHANGED <<dbvars, pending>>

create_profile(name, photos, io) ==
    Serve("create_profile", <<>>,
          create_profile_result(load_data(io), name, photos), io)

\* toggle_profile: an unknown id is answered "updated" as well
toggle_profile_result(d, profile_id, visible_data) ==
    LET i == first_with(d.profiles, "id", profile_id)
    IN IF i # 0
       THEN [data |-> [d EXCEPT !.profiles[i].visible = visible_data.visible],
             saved |-> TRUE, status |-> 200, body |-> "updated"]
       ELSE [data |-> d, saved |-> FALSE, status |-> 200, body |-> "updated"]

toggle_profile(profile_id, visible_data, io) ==
    Serve("toggle_profile", <<profile_id>>,
          toggle_profile_result(load_data(io), profile_id, visible_data), io)

\* delete_profile with the chat ids collected after the chats were filtered out,
\* so that no message is removed
delete_profile_result_late_ids(d, profile_id) ==
    LET chats_left == without(d.chats, "profile_id", profile_id)
        profile_chats == SelectSeq(chats_left, LAMBDA c : c.profile_id = profile_id)
        chat_ids == Range(Column(profile_chats, "id"))
    IN [data |-> [d EXCEPT
                    !.profiles = without(@, "id", profile_id),
                    !.chats = chats_left,
                    !.messages = SelectSeq(@, LAMBDA m : m.chat_id \notin chat_ids),
                    !.comments = without(@, "profile_id", profile_id)],
        saved |-> TRUE, status |-> 200, body |-> "deleted"]

\* delete_profile leaving the comments of the listing in the document
delete_profile_result_keeping_comments(d, profile_id) ==
    LET profile_chats == SelectSeq(d.chats, LAMBDA c : c.profile_id = profile_id)
        chat_ids == Range(Column(profile_chats, "id"))
    IN [data |-> [d EXCEPT
                    !.profiles = without(@, "id", profile_id),
                    !.chats = without(@, "profile_id", profile_id),
                    !.messages = SelectSeq(@, LAMBDA m : m.chat_id \notin chat_ids)],
        saved |-> TRUE, status |-> 200, body |-> "deleted"]

\* delete_profile: the listing, its chats, the messages carrying the id of one
\* of those chats, and its comments are filtered out of the document
delete_profile_result(d, profile_id) ==
    LET profile_chats == SelectSeq(d.chats, LAMBDA c : c.profile_id = profile_id)
        chat_ids == Range(Column(profile_chats, "id"))
    IN [data |-> [d EXCEPT
                    !.profiles = without(@, "id", profile_id),
                    !.chats = without(@, "profile_id", profile_id),
                    !.messages = SelectSeq(@, LAMBDA m : m.chat_id \notin chat_ids),
                    !.comments = without(@, "profile_id", profile_id)],
        saved |-> TRUE, status |-> 200, body |-> "deleted"]

delete_profile(profile_id, io) ==
    Serve("delete_profile", <<profile_id>>,
          delete_profile_result(load_data(io), profile_id), io)

\* A worker without a call
Idle == [op |-> "idle"]

\* The workers that serve calls: requests of the admin panel, connections to
\* the SQLite store
Workers == {1, 2}

\* No call is in progress.
NoCalls == [w \in Workers |-> Idle]

\* DATA_FILE as a concurrent reader finds it: while save_data is between
\* open(DATA_FILE, 'w'), which truncates the file, and the end of json.dump, the
\* content does not parse.
data_file ==
    IF \E w \in DOMAIN pending :
          pending[w].op = "delete_profile" /\ pending[w].pc = "dump"
    THEN [readable |-> FALSE, writable |-> TRUE]
    ELSE Healthy

\* delete_profile statement by statement: the call starts with load_data
delete_profile_begin(w, profile_id) ==
    /\ \A v \in DOMAIN pending : pending[v] = Idle
    /\ pending' = [pending EXCEPT ![w] =
                      [op |-> "delete_profile", profile_id |-> profile_id,
                       pc |-> "profiles", data |-> load_data(data_file),
                       chat_ids |-> {}]]
    /\ UNCHANGED <<data, dbvars, last>>

\* the call p after its next assignment to the loaded document
delete_profile_filtered(p) ==
    CASE p.pc = "profiles" ->
            [p EXCEPT !.data.profiles = without(@, "id", p.profile_id), !.pc = "chats"]
      [] p.pc = "chats" ->
            [p EXCEPT !.chat_ids = Range(Column(SelectSeq(p.data.chats,
                                      LAMBDA c : c.profile_id = p.profile_id), "id")),
                      !.data.chats = without(@, "profile_id", p.profile_id),
                      !.pc = "messages"]
      [] p.pc = "messages" ->
            [p EXCEPT !.data.messages = SelectSeq(@, LAMBDA m : m.chat_id \notin p.chat_ids),
                      !.pc = "comments"]
      [] p.pc = "comments" ->
            [p EXCEPT !.data.comments = without(@, "profile_id", p.profile_id),
                      !.pc = "save"]

\* a delete_profile that wrote the document back after every assignment
written_by_filter_write_through(d, p) == p.data

\* the content of DATA_FILE after an assignment of call p to its loaded
\* document: the file d is not touched before save_data
written_by_filter(d, p) == d

delete_profile_filter(w) ==
    /\ pending[w].op = "delete_profile"
    /\ pending[w].pc \in {"profiles", "chats", "messages", "comments"}
    /\ pending' = [pending EXCEPT ![w] = delete_profile_filtered(@)]
    /\ data' = written_by_filter(data, pending'[w])
    /\ UNCHANGED <<dbvars, last>>

\* save_data opens DATA_FILE for writing
delete_profile_open(w) ==
    /\ pending[w].op = "delete_profile" /\ pending[w].pc = "save"
    /\ pending' = [pending EXCEPT ![w].pc = "dump"]
    /\ UNCHANGED <<data, dbvars, last>>

\* json.dump has written the document, the file is closed, the call answers
delete_profile_dump(w) ==
    /\ pending[w].op = "delete_profile" /\ pending[w].pc = "dump"
    /\ data' = pending[w].data
    /\ last' = Response("delete_profile", <<pending[w].profile_id>>, 200, "deleted")
    /\ pending' = [pending EXCEPT ![w] = Idle]
    /\ UNCHANGED dbvars

\* A read request (get_admin_profiles, get_admin_chats, get_chat_messages_admin,
\* get_stats): one load_data, of which the handler answers a part.  The record
\* of the call keeps the whole document the read loaded.
read_store(op) ==
    /\ last' = Response(op, <<>>, 200, load_data(data_file))
    /\ UNCHANGED <<data, dbvars, pending>>

----------------------------------------------------------------------------
(* admin.py: chats and messages.                                           *)

\* get_chat_messages_admin: a read of the document d, answering the messages
\* that carry the id of the first chat of the listing
get_chat_messages_admin(d, profile_id) ==
    LET c == first_with(d.chats, "profile_id", profile_id)
    IN IF c = 0 THEN <<>>
       ELSE SelectSeq(d.messages, LAMBDA m : m.chat_id = d.chats[c].id)

\* The find-or-create of the listing's chat shared by send_admin_reply and
\* send_system_message: the document with the chat in it, and the chat.
with_chat(d, profile_id) ==
    LET p == first_with(d.profiles, "id", profile_id)
        c == first_with(d.chats, "profile_id", profile_id)
        chat == [id |-> Len(d.chats) + 1, profile_id |-> profile_id,
                 profile_name |-> d.profiles[p].name]
    IN IF c # 0 THEN [data |-> d, chat |-> d.chats[c]]
       ELSE [data |-> [d EXCEPT !.chats = Append(@, chat)], chat |-> chat]

RECURSIVE file_messages(_, _, _, _)
\* the loop over the form's files: one message per named file that was stored
file_messages(messages, chat, text, fs) ==
    IF fs = <<>> THEN messages
    ELSE LET f == Head(fs)
             file_url == IF f.filename # "" THEN save_uploaded_file(f) ELSE <<>>
             message_data == [id |-> Len(messages) + 1, chat_id |-> chat.id,
                              kind |-> "file", text |-> text, file_name |-> f.filename]
         IN file_messages(IF file_url # <<>> THEN Append(messages, message_data)
                          ELSE messages,
                          chat, text, Tail(fs))

\* send_admin_reply.  The HTTPException(400) is raised inside the try block
\* whose handler turns every Exception into a 500.
send_admin_reply_result(d, profile_id, form) ==
    IF first_with(d.profiles, "id", profile_id) = 0
    THEN [data |-> d, saved |-> FALSE, status |-> 404, body |-> NoBody]
    ELSE LET wc == with_chat(d, profile_id)
             text == strip(form.text)
             has_text == text # <<>>
             with_files == file_messages(wc.data.messages, wc.chat, text, form.files)
             has_files == Len(with_files) > Len(wc.data.messages)
             message_data == [id |-> Len(with_files) + 1, chat_id |-> wc.chat.id,
                              kind |-> "text", text |-> text, file_name |-> ""]
             messages == IF ~has_files /\ has_text
                         THEN Append(with_files, message_data) ELSE with_files
         IN IF ~has_files /\ ~has_text
            THEN [data |-> d, saved |-> FALSE, status |-> 500, body |-> NoBody]
            ELSE [data |-> [wc.data EXCEPT !.messages = messages],
                  saved |-> TRUE, status |-> 200, body |-> "sent"]

send_admin_reply(profile_id, form, io) ==
    Serve("send_admin_reply", <<profile_id>>,
          send_admin_reply_result(load_data(io), profile_id, form), io)

\* send_admin_reply up to `await request.form()`: the document is loaded, the
\* listing looked up (404 without it) and its chat found or added to the loaded
\* document; there the request is suspended with what it loaded.
send_admin_reply_begin(w, profile_id) ==
    LET d == load_data(Healthy)
    IN /\ pending[w] = Idle
       /\ IF first_with(d.profiles, "id", profile_id) = 0
          THEN /\ last' = Response("send_admin_reply", <<profile_id>>, 404, NoBody)
               /\ pending' = pending
          ELSE /\ last' = last
               /\ pending' = [pending EXCEPT ![w] =
                                 [op |-> "send_admin_reply", profile_id |-> profile_id,
                                  wc |-> with_chat(d, profile_id)]]
       /\ UNCHANGED <<data, dbvars>>

\* send_admin_reply from the form on, for the document and chat wc the request
\* holds since it was loaded: the messages are added to that document, which
\* is saved.
send_admin_reply_resumed(wc, form) ==
    LET text == strip(form.text)
        has_text == text # <<>>
        with_files == file_messages(wc.data.messages, wc.chat, text, form.files)
        has_files == Len(with_files) > Len(wc.data.messages)
        message_data == [id |-> Len(with_files) + 1, chat_id |-> wc.chat.id,
                         kind |-> "text", text |-> text, file_name |-> ""]
        messages == IF ~has_files /\ has_text
                    THEN Append(with_files, message_data) ELSE with_files
    IN IF ~has_files /\ ~has_text
       THEN [data |-> wc.data, saved |-> FALSE, status |-> 500, body |-> NoBody]
       ELSE [data |-> [wc.data EXCEPT !.messages = messages],
             saved |-> TRUE, status |-> 200, body |-> "sent"]

send_admin_reply_resume(w, form) ==
    /\ pending[w].op = "send_admin_reply"
    /\ LET r == send_admin_reply_resumed(pending[w].wc, form)
       IN /\ data' = IF r.saved THEN save_data(r.data, Healthy) ELSE data
          /\ last' = Response("send_admin_reply", <<pending[w].profile_id>>,
                              r.status, r.body)
    /\ pending' = [pending EXCEPT ![w] = Idle]
    /\ UNCHANGED dbvars

\* send_system_message.  A body without "text" raises KeyError after the chat
\* was added in memory and before save_data: a 500, nothing written.
send_system_message_result(d, profile_id, message_data) ==
    IF first_with(d.profiles, "id", profile_id) = 0
    THEN [data |-> d, saved |-> FALSE, status |-> 404, body |-> NoBody]
    ELSE IF ~message_data.has_text
    THEN [data |-> d, saved |-> FALSE, status |-> 500, body |-> NoBody]
    ELSE LET wc == with_chat(d, profile_id)
             system_message == [id |-> Len(wc.data.messages) + 1,
                                chat_id |-> wc.chat.id, kind |-> "system",
                                text |-> message_data.text, file_name |-> ""]
         IN [data |-> [wc.data EXCEPT !.messages = Append(@, system_message)],
             saved |-> TRUE, status |-> 200, body |-> system_message.id]

send_system_message(profile_id, message_data, io) ==
    Serve("send_system_message", <<profile_id>>,
          send_system_message_result(load_data(io), profile_id, message_data), io)

----------------------------------------------------------------------------
(* admin.py: promocodes.  A code is a sequence of characters.              *)

\* str.upper(), character by character
upper_char(c) ==
    IF c = "s" THEN "S" ELSE IF c = "w" THEN "W" ELSE c

upper(code) == [i \in DOMAIN code |-> upper_char(code[i])]

\* create_admin_promocode looking for the code as it was sent, not uppercased
create_admin_promocode_result_as_sent(d, promocode) ==
    LET existing == first_with(d.promocodes, "code", promocode.code)
        new_promocode == [id |-> Len(d.promocodes) + 1, code |-> upper(promocode.code),
                          discount |-> promocode.discount, is_active |-> TRUE,
                          used_by |-> <<>>]
    IN IF existing # 0
       THEN [data |-> d, saved |-> FALSE, status |-> 400, body |-> NoBody]
       ELSE [data |-> [d EXCEPT !.promocodes = Append(@, new_promocode)],
             saved |-> TRUE, status |-> 200, body |-> new_promocode]

\* create_admin_promocode
create_admin_promocode_result(d, promocode) ==
    LET existing == first_with(d.promocodes, "code", upper(promocode.code))
        new_promocode == [id |-> Len(d.promocodes) + 1, code |-> upper(promocode.code),
                          discount |-> promocode.discount, is_active |-> TRUE,
                          used_by |-> <<>>]
    IN IF existing # 0
       THEN [data |-> d, saved |-> FALSE, status |-> 400, body |-> NoBody]
       ELSE [data |-> [d EXCEPT !.promocodes = Append(@, new_promocode)],
             saved |-> TRUE, status |-> 200, body |-> new_promocode]

create_admin_promocode(promocode, io) ==
    Serve("create_admin_promocode", <<promocode.code>>,
          create_admin_promocode_result(load_data(io), promocode), io)

\* toggle_admin_promocode: an unknown id is answered "updated" as well
toggle_admin_promocode_result(d, promocode_id) ==
    LET i == first_with(d.promocodes, "id", promocode_id)
    IN IF i # 0
       THEN [data |-> [d EXCEPT !.promocodes[i].is_active = ~@],
             saved |-> TRUE, status |-> 200, body |-> "updated"]
       ELSE [data |-> d, saved |-> FALSE, status |-> 200, body |-> "updated"]

toggle_admin_promocode(promocode_id, io) ==
    Serve("toggle_admin_promocode", <<promocode_id>>,
          toggle_admin_promocode_result(load_data(io), promocode_id), io)

\* delete_admin_promocode
delete_admin_promocode_result(d, promocode_id) ==
    [data |-> [d EXCEPT !.promocodes = without(@, "id", promocode_id)],
     saved |-> TRUE, status |-> 200, body |-> "deleted"]

delete_admin_promocode(promocode_id, io) ==
    Serve("delete_admin_promocode", <<promocode_id>>,
          delete_admin_promocode_result(load_data(io), promocode_id), io)

----------------------------------------------------------------------------
(* database.py.  Every operation runs inside get_db_connection, which      *)
(* commits when the block is left normally (a return included) and rolls   *)
(* back and re-raises on an exception.  A table is the sequence of its     *)
(* rows in rowid order.  A nullable column holds NULL or {v}.              *)

NULL == {}

\* Python's truth value of an Optional[int] argument: None and 0 are false
truthy(x) == x # NULL /\ x # {0}

\* SQL's column = ? : never true of NULL
sql_eq(column, value) == column # NULL /\ value # NULL /\ column = value

\* cursor.fetchone(): the first row of the result as a one-element list, the
\* empty list standing for None
fetchone(rows) == IF rows = <<>> THEN <<>> ELSE <<Head(rows)>>

\* What the operation hands back: a value, or an exception
Returned(op, args, value) == Response(op, args, "returned", value)

\* get_or_create_user without the SELECT: the row is always inserted
get_or_create_user_rows_always_insert(rows, user_id, telegram_id, username, is_premium, now) ==
    Append(rows, [id |-> user_id, telegram_id |-> telegram_id,
                  username |-> username,
                  is_premium |-> IF is_premium THEN 1 ELSE 0,
                  created_at |-> now, last_login |-> now])

\* get_or_create_user: the users table it leaves.  The row of the telegram_id
\* gets last_login and the attributes of the call (username stands for
\* username, first_name, last_name and language_code), or is inserted with the
\* next AUTOINCREMENT id, created_at and last_login at their default, now.
get_or_create_user_rows(rows, user_id, telegram_id, username, is_premium, now) ==
    LET i == first_with(rows, "telegram_id", telegram_id)
    IN IF i # 0
       THEN [rows EXCEPT ![i].last_login = now,
                         ![i].username = username,
                         ![i].is_premium = IF is_premium THEN 1 ELSE 0]
       ELSE Append(rows, [id |-> user_id, telegram_id |-> telegram_id,
                          username |-> username,
                          is_premium |-> IF is_premium THEN 1 ELSE 0,
                          created_at |-> now, last_login |-> now])

\* get_or_create_user: no argument is validated; the row is returned
get_or_create_user(telegram_id, username, is_premium, now) ==
    LET user_id == seq.users + 1
    IN /\ users' = get_or_create_user_rows(users, user_id, telegram_id, username,
                                           is_premium, now)
       /\ seq' = IF Len(users') > Len(users) THEN [seq EXCEPT !.users = user_id] ELSE seq
       /\ last' = Returned("get_or_create_user", <<telegram_id, username, is_premium>>,
                           users'[first_with(users', "telegram_id", telegram_id)])
       /\ UNCHANGED <<pending, data, files, chats, orders, blobs>>

\* add_file: the INSERT, whatever users row user_id names (foreign keys are not
\* switched on for the connection)
add_file_rows(rows, file_id, user_id, telegram_user_id, file_path) ==
    Append(rows, [id |-> file_id, user_id |-> user_id,
                  telegram_user_id |-> telegram_user_id, file_path |-> file_path])

add_file(user_id, telegram_user_id, file_path) ==
    LET file_id == seq.files + 1
    IN /\ files' = add_file_rows(files, file_id, user_id, telegram_user_id, file_path)
       /\ seq' = [seq EXCEPT !.files = file_id]
       /\ last' = Returned("add_file", <<user_id, telegram_user_id>>, file_id)
       /\ UNCHANGED <<pending, data, users, chats, orders, blobs>>

\* get_file_by_id with the owner left out of the WHERE clause
get_file_by_id_any_owner(rows, file_id, telegram_user_id) ==
    fetchone(SelectSeq(rows, LAMBDA f : f.id = file_id))

\* get_file_by_id, a read of the table: SELECT ... WHERE id = ? AND
\* telegram_user_id = ?, the row as a one-element list or the empty list for None
get_file_by_id(rows, file_id, telegram_user_id) ==
    fetchone(SelectSeq(rows, LAMBDA f : f.id = file_id
                                        /\ f.telegram_user_id = telegram_user_id))

\* delete_file selecting and deleting by the file id alone
delete_file_result_any_owner(rows, disk, file_id, telegram_user_id, removable) ==
    LET file == fetchone(SelectSeq(rows, LAMBDA f : f.id = file_id))
    IN IF file = <<>>
       THEN [files |-> rows, blobs |-> disk, value |-> FALSE, log |-> "nothing"]
       ELSE [files |-> SelectSeq(rows, LAMBDA f : f.id # file_id),
             blobs |-> IF removable THEN disk \ {file[1].file_path} ELSE disk,
             value |-> TRUE,
             log |-> IF file[1].file_path \notin disk THEN "nothing"
                     ELSE IF removable THEN "File deleted" ELSE "Error deleting file"]

\* delete_file without the try around os.remove: the exception leaves the
\* block, the DELETE is rolled back
delete_file_result_unguarded(rows, disk, file_id, telegram_user_id, removable) ==
    LET file == fetchone(SelectSeq(rows, LAMBDA f : f.id = file_id
                                        /\ f.telegram_user_id = telegram_user_id))
    IN IF file = <<>>
       THEN [files |-> rows, blobs |-> disk, value |-> FALSE, log |-> "nothing"]
       ELSE IF file[1].file_path \in disk /\ ~removable
       THEN [files |-> rows, blobs |-> disk, value |-> FALSE, log |-> "Database error"]
       ELSE [files |-> SelectSeq(rows, LAMBDA f : ~(f.id = file_id
                                        /\ f.telegram_user_id = telegram_user_id)),
             blobs |-> disk \ {file[1].file_path},
             value |-> TRUE,
             log |-> IF file[1].file_path \in disk THEN "File deleted" ELSE "nothing"]

\* delete_file: the row is selected and deleted by id and owner; the blob, when
\* it exists, is removed, and a failure of os.remove is logged only
\* (removable: whether os.remove succeeds)
delete_file_result(rows, disk, file_id, telegram_user_id, removable) ==
    LET file == fetchone(SelectSeq(rows, LAMBDA f : f.id = file_id
                                        /\ f.telegram_user_id = telegram_user_id))
        left == SelectSeq(rows, LAMBDA f : ~(f.id = file_id
                                             /\ f.telegram_user_id = telegram_user_id))
    IN IF file = <<>>
       THEN [files |-> rows, blobs |-> disk, value |-> FALSE, log |-> "nothing"]
       ELSE [files |-> left,
             blobs |-> IF removable THEN disk \ {file[1].file_path} ELSE disk,
             value |-> Len(rows) - Len(left) > 0,
             log |-> IF file[1].file_path \notin disk THEN "nothing"
                     ELSE IF removable THEN "File deleted" ELSE "Error deleting file"]

delete_file(file_id, telegram_user_id, removable) ==
    LET r == delete_file_result(files, blobs, file_id, telegram_user_id, removable)
    IN /\ files' = r.files
       /\ blobs' = r.blobs
       /\ last' = Returned("delete_file", <<file_id, telegram_user_id>>,
                           [value |-> r.value, log |-> r.log])
       /\ UNCHANGED <<pending, data, users, chats, orders, seq>>

\* The lookup shared by create_chat and get_chat: by the owner key when the
\* argument is true in Python's sense, by telegram_user_id IS NULL otherwise
chat_lookup(rows, profile_id, telegram_user_id) ==
    IF truthy(telegram_user_id)
    THEN SelectSeq(rows, LAMBDA c : c.profile_id = profile_id
                                    /\ sql_eq(c.telegram_user_id, telegram_user_id))
    ELSE SelectSeq(rows, LAMBDA c : c.profile_id = profile_id
                                    /\ c.telegram_user_id = NULL)

\* create_chat bringing the chat found up to the profile_name of the call
create_chat_renaming(profile_id, profile_name, telegram_user_id) ==
    LET found == {i \in DOMAIN chats :
                    /\ chats[i].profile_id = profile_id
                    /\ IF truthy(telegram_user_id)
                       THEN sql_eq(chats[i].telegram_user_id, telegram_user_id)
                       ELSE chats[i].telegram_user_id = NULL}
        chat_id == seq.chats + 1
        row == [id |-> chat_id, profile_id |-> profile_id,
                profile_name |-> profile_name,
                telegram_user_id |-> telegram_user_id]
    IN /\ IF found # {}
          THEN /\ chats' = [chats EXCEPT ![Min(found)].profile_name = profile_name]
               /\ seq' = seq
               /\ last' = Returned("create_chat", <<profile_id, telegram_user_id>>,
                                   <<chats'[Min(found)]>>)
          ELSE /\ chats' = Append(chats, row)
               /\ seq' = [seq EXCEPT !.chats = chat_id]
               /\ last' = Returned("create_chat", <<profile_id, telegram_user_id>>,
                                   <<row>>)
       /\ UNCHANGED <<pending, data, users, files, orders, blobs>>

\* create_chat: the chat found is returned, or a row is inserted with the
\* arguments as they were passed and returned
create_chat(profile_id, profile_name, telegram_user_id) ==
    LET chat == fetchone(chat_lookup(chats, profile_id, telegram_user_id))
        chat_id == seq.chats + 1
        row == [id |-> chat_id, profile_id |-> profile_id,
                profile_name |-> profile_name,
                telegram_user_id |-> telegram_user_id]
    IN /\ IF chat # <<>>
          THEN /\ chats' = chats
               /\ seq' = seq
               /\ last' = Returned("create_chat", <<profile_id, telegram_user_id>>, chat)
          ELSE /\ chats' = Append(chats, row)
               /\ seq' = [seq EXCEPT !.chats = chat_id]
               /\ last' = Returned("create_chat", <<profile_id, telegram_user_id>>,
                                   <<row>>)
       /\ UNCHANGED <<pending, data, users, files, orders, blobs>>

\* create_chat on a connection of its own, statement by statement.  The SELECT
\* runs outside a transaction (sqlite3 opens one before the INSERT only) and
\* holds no lock once its result is fetched.
create_chat_select(w, profile_id, profile_name, telegram_user_id) ==
    /\ pending[w] = Idle
    /\ pending' = [pending EXCEPT ![w] =
                      [op |-> "create_chat", profile_id |-> profile_id,
                       profile_name |-> profile_name,
                       telegram_user_id |-> telegram_user_id,
                       chat |-> fetchone(chat_lookup(chats, profile_id,
                                                     telegram_user_id))]]
    /\ UNCHANGED <<data, dbvars, last>>

\* the rest of the call: the chat found is returned, or the row is inserted,
\* committed and returned (no constraint of the table refuses it)
create_chat_insert(w) ==
    LET p == pending[w]
        chat_id == seq.chats + 1
        row == [id |-> chat_id, profile_id |-> p.profile_id,
                profile_name |-> p.profile_name,
                telegram_user_id |-> p.telegram_user_id]
    IN /\ p.op = "create_chat"
       /\ IF p.chat # <<>>
          THEN /\ chats' = chats
               /\ seq' = seq
               /\ last' = Returned("create_chat", <<p.profile_id, p.telegram_user_id>>,
                                   p.chat)
          ELSE /\ chats' = Append(chats, row)
               /\ seq' = [seq EXCEPT !.chats = chat_id]
               /\ last' = Returned("create_chat", <<p.profile_id, p.telegram_user_id>>,
                                   <<row>>)
       /\ pending' = [pending EXCEPT ![w] = Idle]
       /\ UNCHANGED <<data, users, files, orders, blobs>>

\* get_chat: the chat found, or None
get_chat(profile_id, telegram_user_id) ==
    /\ last' = Returned("get_chat", <<profile_id, telegram_user_id>>,
                        fetchone(chat_lookup(chats, profile_id, telegram_user_id)))
    /\ UNCHANGED <<data, dbvars, pending>>

\* The value a nullable column holds
the(x) == CHOOSE v \in x : TRUE

\* The character codes of the digits timestamps are written with
byte(c) == CASE c = "0" -> 48 [] c = "1" -> 49 [] c = "9" -> 57

RECURSIVE text_lt(_, _)
\* SQLite's comparison of two TEXT values: byte by byte, a proper prefix first
text_lt(a, b) ==
    IF b = <<>> THEN FALSE
    ELSE IF a = <<>> THEN TRUE
    ELSE IF Head(a) = Head(b) THEN text_lt(Tail(a), Tail(b))
    ELSE byte(Head(a)) < byte(Head(b))

\* SQL's column < ? : never true of NULL
sql_lt(column, value) ==
    column # NULL /\ value # NULL /\ text_lt(the(column), the(value))

\* create_order: the row is inserted with status 'unpaid' and returned
\* (order_number stands for the columns no later statement writes: order_number,
\* profile_id, telegram_user_id, created_at)
create_order(amount, expires_at) ==
    LET order_id == seq.orders + 1
        row == [id |-> order_id, order_number |-> <<"ORD", order_id>>,
                status |-> "unpaid", amount |-> amount, expires_at |-> expires_at]
    IN /\ orders' = Append(orders, row)
       /\ seq' = [seq EXCEPT !.orders = order_id]
       /\ last' = Returned("create_order", <<>>, <<row>>)
       /\ UNCHANGED <<pending, data, users, files, chats, blobs>>

\* update_order with status among the columns it sets
update_order_rows_reopening(rows, order_id, amount, expires_at) ==
    [i \in DOMAIN rows |->
        IF rows[i].id = order_id
        THEN [rows[i] EXCEPT !.amount = amount, !.expires_at = expires_at,
                             !.status = "unpaid"]
        ELSE rows[i]]

\* update_order: UPDATE orders SET amount = ?, ..., expires_at = ? WHERE id = ?
\* (amount stands for amount, bonus_amount, total_amount, crypto_type, currency)
update_order_rows(rows, order_id, amount, expires_at) ==
    [i \in DOMAIN rows |->
        IF rows[i].id = order_id
        THEN [rows[i] EXCEPT !.amount = amount, !.expires_at = expires_at]
        ELSE rows[i]]

update_order(order_id, amount, expires_at) ==
    /\ orders' = update_order_rows(orders, order_id, amount, expires_at)
    /\ last' = Returned("update_order", <<order_id>>,
                        first_with(orders, "id", order_id) # 0)
    /\ UNCHANGED <<pending, data, users, files, chats, seq, blobs>>

\* delete_order: DELETE FROM orders WHERE id = ?
delete_order(order_id) ==
    /\ orders' = without(orders, "id", order_id)
    /\ last' = Returned("delete_order", <<order_id>>,
                        first_with(orders, "id", order_id) # 0)
    /\ UNCHANGED <<pending, data, users, files, chats, seq, blobs>>

\* delete_expired_orders with the status left out of the WHERE clause
delete_expired_orders_rows_any_status(rows, cutoff_time) ==
    SelectSeq(rows, LAMBDA o : ~sql_lt(o.expires_at, {cutoff_time}))

\* delete_expired_orders: the rows DELETE FROM orders WHERE status = 'unpaid'
\* AND expires_at < ? leaves
delete_expired_orders_rows(rows, cutoff_time) ==
    SelectSeq(rows, LAMBDA o : ~(o.status = "unpaid"
                                 /\ sql_lt(o.expires_at, {cutoff_time})))

delete_expired_orders(cutoff_time) ==
    LET left == delete_expired_orders_rows(orders, cutoff_time)
        deleted_count == Len(orders) - Len(left)
    IN /\ orders' = left
       /\ last' = Returned("delete_expired_orders", <<cutoff_time>>, deleted_count)
       /\ UNCHANGED <<pending, data, users, files, chats, seq, blobs>>

\* The payment of an order, an event outside database.py that writes the status
\* (the Order state machine of the specification: unpaid -> paid)
order_paid(order_id) ==
    /\ \E i \in DOMAIN orders : orders[i].id = order_id /\ orders[i].status = "unpaid"
    /\ orders' = [i \in DOMAIN orders |->
                    IF orders[i].id = order_id THEN [orders[i] EXCEPT !.status = "paid"]
                    ELSE orders[i]]
    /\ last' = Returned("order_paid", <<order_id>>, NoBody)
    /\ UNCHANGED <<pending, data, users, files, chats, seq, blobs>>

\* The upload endpoint's write of the blob (the Blob Store of the
\* specification; its code is not part of database.py)
blob_store_write(file_path) ==
    /\ blobs' = blobs \cup {file_path}
    /\ last' = Returned("blob_store_write", <<file_path>>, NoBody)
    /\ UNCHANGED <<pending, data, users, files, chats, orders, seq>>

\* The tables of the database file, as a record
Tables == [users |-> users, files |-> files, chats |-> chats, orders |-> orders,
           seq |-> seq]

\* get_db_connection with a rollback that keeps what the call wrote
rolled_back_keeping_writes(committed, written) == written

\* get_db_connection, the except branch: conn.rollback() brings the tables back
\* to what was committed, whatever the call wrote on its connection
rolled_back(committed, written) == committed

\* A call inside `with get_db_connection() as conn`: its statements have been
\* executed on the connection, where `written` are the tables as the call sees
\* them; nothing is committed yet.
db_executed(w, op, args, written, value) ==
    /\ pending = NoCalls
    /\ pending' = [pending EXCEPT ![w] = [op |-> op, args |-> args,
                                          written |-> written, value |-> value]]
    /\ UNCHANGED <<data, users, files, chats, orders, seq, last>>

\* get_or_create_user up to its return statement
get_or_create_user_executed(w, telegram_id, username, is_premium, now) ==
    LET rows == get_or_create_user_rows(users, seq.users + 1, telegram_id, username,
                                        is_premium, now)
    IN /\ db_executed(w, "get_or_create_user", <<telegram_id, username, is_premium>>,
                      [Tables EXCEPT !.users = rows,
                                     !.seq.users = IF Len(rows) > Len(users)
                                                   THEN @ + 1 ELSE @],
                      rows[first_with(rows, "telegram_id", telegram_id)])
       /\ UNCHANGED blobs

\* add_file up to its return statement
add_file_executed(w, user_id, telegram_user_id, file_path) ==
    /\ db_executed(w, "add_file", <<user_id, telegram_user_id>>,
                   [Tables EXCEPT !.files = add_file_rows(files, seq.files + 1, user_id,
                                                          telegram_user_id, file_path),
                                  !.seq.files = @ + 1],
                   seq.files + 1)
    /\ UNCHANGED blobs

\* delete_file up to its return statement: os.remove has run by then
delete_file_executed(w, file_id, telegram_user_id, removable) ==
    LET r == delete_file_result(files, blobs, file_id, telegram_user_id, removable)
    IN /\ db_executed(w, "delete_file", <<file_id, telegram_user_id>>,
                      [Tables EXCEPT !.files = r.files],
                      [value |-> r.value, log |-> r.log])
       /\ blobs' = r.blobs

\* the tables become t
tables_become(t) ==
    /\ users' = t.users
    /\ files' = t.files
    /\ chats' = t.chats
    /\ orders' = t.orders
    /\ seq' = t.seq

\* get_db_connection after the yield: conn.commit(), and the call returns
db_commit(w) ==
    /\ pending[w] # Idle
    /\ tables_become(pending[w].written)
    /\ last' = Returned(pending[w].op, pending[w].args, pending[w].value)
    /\ pending' = [pending EXCEPT ![w] = Idle]
    /\ UNCHANGED <<data, blobs>>

\* get_db_connection, an exception before the commit is done (raised by a
\* statement, by the code after it, or by conn.commit()): rollback, re-raise
db_raise(w) ==
    /\ pending[w] # Idle
    /\ tables_become(rolled_back(Tables, pending[w].written))
    /\ last' = Response(pending[w].op, pending[w].args, "raised", NoBody)
    /\ pending' = [pending EXCEPT ![w] = Idle]
    /\ UNCHANGED <<data, blobs>>

----------------------------------------------------------------------------
(* The start: the SQLite database is created empty on import; data.json is *)
(* absent, or was left by earlier runs and by the client application that  *)
(* shares it (the only writer of comments): listings 1..n, each with at    *)
(* most one comment.                                                       *)

InitProfile(i) == [id |-> i, name |-> "Ann", photos |-> <<<<"/uploads/", "a.jpg">>>>,
                   visible |-> TRUE]

InitComments(commented) ==
    LET ids == [i \in 1..MaxInitProfiles |-> i]
        on == SelectSeq(ids, LAMBDA i : i \in commented)
    IN [k \in DOMAIN on |-> [id |-> k, profile_id |-> on[k]]]

InitData ==
    {[default_data EXCEPT !.profiles = [i \in 1..n |-> InitProfile(i)],
                          !.comments = InitComments(commented)] :
        n \in 0..MaxInitProfiles, commented \in SUBSET (1..MaxInitProfiles)}

\* init_database on import: the tables empty, nothing uploaded yet
NewDatabase ==
    /\ users = <<>>
    /\ files = <<>>
    /\ chats = <<>>
    /\ orders = <<>>
    /\ seq = [users |-> 0, files |-> 0, chats |-> 0, orders |-> 0]
    /\ blobs = {}

Init ==
    /\ data \in {d \in InitData :
                    \A i \in DOMAIN d.comments : d.comments[i].profile_id <= Len(d.profiles)}
    /\ NewDatabase
    /\ pending = NoCalls
    /\ last = Response("start", <<>>, 200, NoBody)

\* The telegram ids a caller passes to get_or_create_user
SignInIds == {-1, 0, 1}

\* The readings of CURRENT_TIMESTAMP
Clock == {1, 2}

\* The users of the SQLite store.
NextUsers ==
    \E telegram_id \in SignInIds, username \in {"u", "v"}, is_premium \in BOOLEAN,
       now \in Clock :
        /\ first_with(users, "telegram_id", telegram_id) # 0 \/ Len(users) < MaxUserRows
        /\ get_or_create_user(telegram_id, username, is_premium, now)

\* The start of the SQLite store, data.json absent.
InitDB ==
    /\ data = default_data
    /\ NewDatabase
    /\ pending = NoCalls
    /\ last = Response("start", <<>>, 200, NoBody)

ProfileIds == 1..MaxProfileId

\* The photos of a listing form: none, or one upload.
PhotoForms == {<<>>} \cup {<<u>> : u \in Uploads}

\* The forms of a reply: each text alone, and one or two uploads without text.
Forms ==
    {[text |-> t, files |-> <<>>] : t \in Texts}
    \cup {[text |-> <<>>, files |-> <<u>>] : u \in Uploads}
    \cup {[text |-> <<>>, files |-> <<[filename |-> "a.jpg", stored |-> TRUE],
                                      [filename |-> "a.jpg", stored |-> TRUE]>>]}

HasRoom(n) == Len(data.messages) + n <= MaxMessages

MessageBodies == {[has_text |-> TRUE, text |-> <<"s">>], [has_text |-> FALSE, text |-> <<>>]}

\* The admin panel's listings, chats and messages, one request after another,
\* the data file readable and writable.
Next ==
    \/ \E name \in Names, photos \in PhotoForms :
          /\ \A i \in DOMAIN data.profiles : data.profiles[i].id < MaxProfileId
          /\ create_profile(name, photos, Healthy)
    \/ \E id \in ProfileIds : delete_profile(id, Healthy)
    \/ \E id \in ProfileIds, form \in Forms :
          /\ HasRoom(Len(form.files))
          /\ send_admin_reply(id, form, Healthy)
    \/ \E id \in ProfileIds, m \in MessageBodies :
          /\ HasRoom(1)
          /\ send_system_message(id, m, Healthy)

Spec == Init /\ [][Next]_vars

\* The listings and their messages, on a disk that may refuse a write.
NextStorage ==
    \E io \in {Healthy, ReadOnly} :
        \/ \E name \in Names, photos \in PhotoForms :
              /\ \A i \in DOMAIN data.profiles : data.profiles[i].id < MaxProfileId
              /\ create_profile(name, photos, io)
        \/ \E id \in ProfileIds, visible \in BOOLEAN :
              toggle_profile(id, [visible |-> visible], io)
        \/ \E id \in ProfileIds : delete_profile(id, io)
        \/ \E id \in ProfileIds, m \in MessageBodies :
              /\ HasRoom(1)
              /\ send_system_message(id, m, io)

SpecStorage == Init /\ [][NextStorage]_vars

ReadRequests == {"get_admin_profiles", "get_admin_chats", "get_chat_messages_admin",
                 "get_stats"}

\* delete_profile statement by statement, read requests at any moment, and
\* between two deletions the requests that make listings, chats and messages.
NextReads ==
    \/ \E name \in Names :
          /\ pending = NoCalls
          /\ \A i \in DOMAIN data.profiles : data.profiles[i].id < MaxReadProfileId
          /\ create_profile(name, <<[filename |-> "a.jpg", stored |-> TRUE]>>, Healthy)
    \/ \E id \in 1..MaxReadProfileId :
          /\ pending = NoCalls
          /\ Len(data.messages) < MaxReadMessages
          /\ send_system_message(id, [has_text |-> TRUE, text |-> <<"s">>], Healthy)
    \/ \E id \in 1..MaxReadProfileId : delete_profile_begin(1, id)
    \/ delete_profile_filter(1)
    \/ delete_profile_open(1)
    \/ delete_profile_dump(1)
    \/ \E op \in ReadRequests : read_store(op)

SpecReads == Init /\ [][NextReads]_vars

\* A reply suspended at its await while other requests are served whole.
NextReply ==
    \/ \E id \in ProfileIds : send_admin_reply_begin(1, id)
    \/ \E form \in Forms :
          /\ pending[1] # Idle
          /\ Len(pending[1].wc.data.messages) + Len(form.files) <= MaxMessages
          /\ send_admin_reply_resume(1, form)
    \/ \E name \in Names :
          /\ \A i \in DOMAIN data.profiles : data.profiles[i].id < MaxProfileId
          /\ create_profile(name, <<[filename |-> "a.jpg", stored |-> TRUE]>>, Healthy)
    \/ \E id \in ProfileIds : delete_profile(id, Healthy)
    \/ \E id \in ProfileIds, visible \in BOOLEAN :
          toggle_profile(id, [visible |-> visible], Healthy)

SpecReply == Init /\ [][NextReply]_vars

\* The listings alone: created, shown or hidden, and deleted.
NextListing ==
    \/ \E name \in Names, photos \in PhotoForms :
          /\ \A i \in DOMAIN data.profiles : data.profiles[i].id < MaxListingId
          /\ create_profile(name, photos, Healthy)
    \/ \E id \in 1..MaxListingId, visible \in BOOLEAN :
          toggle_profile(id, [visible |-> visible], Healthy)
    \/ \E id \in 1..MaxListingId : delete_profile(id, Healthy)

SpecListing == Init /\ [][NextListing]_vars

Codes == {<<"s">>, <<"S">>, <<"w", "1">>, <<"W", "1">>, <<"S", "w">>, <<"s", "W">>}

Promocodes == {[code |-> c, discount |-> 10] : c \in Codes}

\* The promocodes: created, switched on or off, and deleted.
NextPromo ==
    \/ \E promocode \in Promocodes :
          /\ Len(data.promocodes) < MaxPromocodes
          /\ create_admin_promocode(promocode, Healthy)
    \/ \E id \in 1..MaxPromocodes : toggle_admin_promocode(id, Healthy)
    \/ \E id \in 1..MaxPromocodes : delete_admin_promocode(id, Healthy)

SpecPromo == Init /\ [][NextPromo]_vars

\* The handlers that write the document, on a data file that a handler may find
\* unreadable.
NextUnreadable ==
    \E io \in {Healthy, Unreadable} :
        \/ \E name \in Names, photos \in PhotoForms :
              /\ \A i \in DOMAIN data.profiles : data.profiles[i].id < MaxProfileId
              /\ create_profile(name, photos, io)
        \/ \E id \in ProfileIds : delete_profile(id, io)
        \/ \E id \in ProfileIds, m \in MessageBodies :
              /\ HasRoom(1)
              /\ send_system_message(id, m, io)
        \/ \E promocode \in Promocodes :
              /\ Len(data.promocodes) < MaxPromocodes
              /\ create_admin_promocode(promocode, io)

SpecUnreadable == Init /\ [][NextUnreadable]_vars

TelegramIds == 0..MaxUsers

\* The upload of a file is stored under a name of its own.
Paths == {<<"/uploads/", n>> : n \in 1..MaxFiles}

\* The users, their files and the blobs.
NextFiles ==
    \/ \E telegram_id \in 1..MaxUsers : get_or_create_user(telegram_id, "u", FALSE, 1)
    \/ \E user_id \in 1..MaxUsers, telegram_user_id \in TelegramIds :
          /\ seq.files < MaxFiles
          /\ add_file(user_id, telegram_user_id, <<"/uploads/", seq.files + 1>>)
    \/ \E file_id \in 1..MaxFiles, telegram_user_id \in TelegramIds, removable \in BOOLEAN :
          delete_file(file_id, telegram_user_id, removable)
    \/ \E file_path \in Paths : blob_store_write(file_path)

SpecFiles == InitDB /\ [][NextFiles]_vars

SpecUsers == InitDB /\ [][NextUsers]_vars

\* The owner keys passed for a chat: none, and the integers 0 and 1
OwnerKeys == {NULL, {0}, {1}}

\* The chats of the SQLite store.
NextChats ==
    \/ \E profile_id \in 1..MaxChatListings, profile_name \in {"Ann", "Bea"},
          telegram_user_id \in OwnerKeys :
          /\ seq.chats < MaxChats
          /\ create_chat(profile_id, profile_name, telegram_user_id)
    \/ \E profile_id \in 1..MaxChatListings, telegram_user_id \in OwnerKeys :
          get_chat(profile_id, telegram_user_id)

SpecChats == InitDB /\ [][NextChats]_vars

\* create_chat calls on two connections, their statements interleaved; the
\* owner keys are those a call alone keeps to one chat.
NextChatRace ==
    \E w \in Workers :
        \/ \E profile_id \in 1..MaxChatListings, profile_name \in {"Ann", "Bea"},
              telegram_user_id \in {NULL, {1}} :
              /\ seq.chats + Cardinality({v \in Workers : pending[v] # Idle}) < MaxChats
              /\ create_chat_select(w, profile_id, profile_name, telegram_user_id)
        \/ create_chat_insert(w)

SpecChatRace == InitDB /\ [][NextChatRace]_vars

\* Listings that come and go under either name, the chats of the admin
\* document, and the chats of the SQLite store, created for a stored listing
\* under the name it has at the time.
NextSnapshot ==
    \/ \E name \in {"Ann", "Bea"} :
          /\ \A i \in DOMAIN data.profiles : data.profiles[i].id < MaxSnapListingId
          /\ create_profile(name, <<[filename |-> "a.jpg", stored |-> TRUE]>>, Healthy)
    \/ \E id \in 1..MaxSnapListingId : delete_profile(id, Healthy)
    \/ \E id \in 1..MaxSnapListingId :
          /\ Len(data.messages) < MaxSnapMessages
          /\ send_system_message(id, [has_text |-> TRUE, text |-> <<"s">>], Healthy)
    \/ \E id \in 1..MaxSnapListingId :
          /\ Len(data.messages) < MaxSnapMessages
          /\ send_admin_reply(id, [text |-> <<"h">>, files |-> <<>>], Healthy)
    \/ \E i \in DOMAIN data.profiles, telegram_user_id \in OwnerKeys :
          /\ seq.chats < MaxSnapChats
          /\ create_chat(data.profiles[i].id, data.profiles[i].name, telegram_user_id)

SpecSnapshot == InitDB /\ [][NextSnapshot]_vars

\* Calls on the users and files, each of which is committed or fails before
\* its commit is done.
NextTx ==
    \/ \E telegram_id \in 1..MaxTxUsers, username \in {"u", "v"} :
          /\ first_with(users, "telegram_id", telegram_id) # 0 \/ seq.users < MaxTxUsers
          /\ get_or_create_user_executed(1, telegram_id, username, FALSE, 1)
    \/ \E telegram_user_id \in 1..MaxTxUsers :
          /\ seq.files < MaxTxFiles
          /\ add_file_executed(1, telegram_user_id, telegram_user_id,
                               <<"/uploads/", seq.files + 1>>)
    \/ \E file_id \in 1..MaxTxFiles, telegram_user_id \in 1..MaxTxUsers,
          removable \in BOOLEAN :
          delete_file_executed(1, file_id, telegram_user_id, removable)
    \/ \E n \in 1..MaxTxFiles : pending = NoCalls /\ blob_store_write(<<"/uploads/", n>>)
    \/ db_commit(1)
    \/ db_raise(1)

SpecTx == InitDB /\ [][NextTx]_vars

\* Timestamps in one format, of which the two digits that differ are kept
\* ("09" for 2024-01-01T00:00:09)
Times == {<<"0", "9">>, <<"1", "0">>, <<"1", "1">>}

\* the amount an order is created with, and the amount update_order is given
\* The cutoff of a sweep: after the first, at the second and before the third
\* of the expiry times
Cutoffs == {<<"1", "0">>}

CreatedAmounts == {10}
UpdatedAmounts == {20}

\* The orders of the SQLite store.
NextOrders ==
    \/ \E expires_at \in {NULL} \cup {{t} : t \in Times} :
          /\ seq.orders < MaxOrders
          /\ \E amount \in CreatedAmounts : create_order(amount, expires_at)
    \/ \E order_id \in 1..MaxOrders, amount \in UpdatedAmounts,
          expires_at \in {NULL} \cup {{t} : t \in Times} :
          update_order(order_id, amount, expires_at)
    \/ \E order_id \in 1..MaxOrders : delete_order(order_id)
    \/ \E cutoff_time \in Cutoffs : delete_expired_orders(cutoff_time)
    \/ \E order_id \in 1..MaxOrders : order_paid(order_id)

SpecOrders == InitDB /\ [][NextOrders]_vars

----------------------------------------------------------------------------
(* Properties of the admin panel's document.                               *)

\* every chat is of a stored listing, every message of a stored chat
NoOrphans(d) ==
    /\ \A i \in DOMAIN d.chats : first_with(d.profiles, "id", d.chats[i].profile_id) # 0
    /\ \A i \in DOMAIN d.messages : first_with(d.chats, "id", d.messages[i].chat_id) # 0

\* the ids of the chats of listing L in document d
ChatIdsOf(d, L) == {d.chats[i].id : i \in {j \in DOMAIN d.chats : d.chats[j].profile_id = L}}

\* C1 (cascade completeness): a delete_profile(L) step leaves no chat of L, no
\* message carrying the id of a chat that was of L, and no comment on L, so that
\* get_chat_messages_admin(L) answers the empty list; and in every state every
\* chat is of a stored listing and every message of a stored chat.
C1_CascadeComplete ==
    /\ []NoOrphans(data)
    /\ [][\A L \in ProfileIds :
            (last'.op = "delete_profile" /\ last'.args = <<L>>) =>
                /\ first_with(data'.chats, "profile_id", L) = 0
                /\ \A i \in DOMAIN data'.messages :
                      data'.messages[i].chat_id \notin ChatIdsOf(data, L)
                /\ first_with(data'.comments, "profile_id", L) = 0
                /\ get_chat_messages_admin(data', L) = <<>>]_vars

\* C1 witness: delete_profile(1) has just removed listing 1 with its chat, its
\* message and its comment: what is left is listing 2 with the second chat, the
\* second message and the second comment.
C1_Witness ==
    /\ last.op = "delete_profile" /\ last.args = <<1>>
    /\ Column(data.profiles, "id") = <<2>>
    /\ Column(data.chats, "id") = <<2>>
    /\ Column(data.messages, "id") = <<2>>
    /\ Column(data.comments, "id") = <<2>>

\* the ids of the listings stored in document d
ListingIds(d) == Range(Column(d.profiles, "id"))

\* C3 (listing id assignment): a create_profile step that creates a listing
\* appends it with the id max(stored ids) + 1, and 1 when no listing is stored:
\* 1 again after every listing was deleted, 4 when the listings 1 and 3 are stored.
C3_NextListingId ==
    [][(last'.op = "create_profile" /\ last'.status = 200) =>
            /\ data'.profiles = Append(data.profiles, last'.body)
            /\ ListingIds(data) = {} => last'.body.id = 1
            /\ ListingIds(data) # {} =>
                  /\ last'.body.id - 1 \in ListingIds(data)
                  /\ \A i \in ListingIds(data) : i < last'.body.id
            /\ ListingIds(data) = {1, 3} => last'.body.id = 4]_vars

\* C3 witness: create_profile has just answered id 4 with the listings 1 and 3
\* stored (listing 2 was deleted before).
C3_Witness ==
    /\ last.op = "create_profile" /\ last.status = 200 /\ last.body.id = 4
    /\ Column(data.profiles, "id") = <<1, 3, 4>>

Lowercase == {"s", "w"}

\* the stored promocodes whose code is the sent code up to the case of letters
SameCode(d, code) ==
    {i \in DOMAIN d.promocodes :
        /\ Len(d.promocodes[i].code) = Len(code)
        /\ \A k \in DOMAIN code :
              \/ d.promocodes[i].code[k] = code[k]
              \/ <<code[k], d.promocodes[i].code[k]>> \in {<<"s", "S">>, <<"w", "W">>}}

\* C6 (promocode normalisation and duplicate rejection): a
\* create_admin_promocode step whose code, uppercased, is the code of a stored
\* promocode answers the duplicate error (400) and leaves the promocodes as they
\* are; any other appends the code in uppercase (no lowercase letter, the sent
\* characters otherwise); and no two stored promocodes ever have the same code.
C6_PromocodeCodes ==
    /\ [](\A i, j \in DOMAIN data.promocodes :
            data.promocodes[i].code = data.promocodes[j].code => i = j)
    /\ [][last'.op = "create_admin_promocode" =>
            LET code == last'.args[1]
                n == Len(data.promocodes)
            IN IF SameCode(data, code) # {}
               THEN last'.status = 400 /\ data'.promocodes = data.promocodes
               ELSE /\ last'.status = 200
                    /\ SubSeq(data'.promocodes, 1, n) = data.promocodes
                    /\ Len(data'.promocodes) = n + 1
                    /\ Range(data'.promocodes[n + 1].code) \cap Lowercase = {}
                    /\ SameCode(data', code) = {n + 1}]_vars

\* C6 witness: the code "s" has just been refused as a duplicate of the stored
\* "S", with a second promocode stored.
C6_Witness ==
    /\ last = Response("create_admin_promocode", <<<<"s">>>>, 400, NoBody)
    /\ Column(data.promocodes, "code") = <<<<"S">>, <<"S", "W">>>>

\* C27 (promocode ids are unique and address one promocode), the claim as
\* stated: no two stored promocodes have the same id; a toggle_admin_promocode
\* step flips is_active of at most one promocode and changes nothing else; a
\* delete_admin_promocode step removes at most one promocode.
C27_PromocodeIdsUnique ==
    /\ [](\A i, j \in DOMAIN data.promocodes :
            data.promocodes[i].id = data.promocodes[j].id => i = j)
    /\ [][last'.op = "toggle_admin_promocode" =>
            /\ Len(data'.promocodes) = Len(data.promocodes)
            /\ Cardinality({i \in DOMAIN data.promocodes :
                    data'.promocodes[i] # data.promocodes[i]}) =
               Cardinality({i \in DOMAIN data.promocodes :
                    data.promocodes[i].id = last'.args[1]})]_vars
    /\ [][last'.op = "delete_admin_promocode" =>
            Len(data.promocodes) - Len(data'.promocodes) <= 1]_vars

----------------------------------------------------------------------------
(* Properties of the users and files of database.py.                       *)

\* C2 (ownership isolation): whatever was added and deleted, get_file_by_id of
\* a stored file's id with an owner key other than the one the file was added
\* with finds nothing.
C2_OwnershipIsolation ==
    \A i \in DOMAIN files : \A B \in TelegramIds :
        B # files[i].telegram_user_id => get_file_by_id(files, files[i].id, B) = <<>>

\* C2 witness: files of two different owners are stored, and each owner's key
\* finds that owner's file.
C2_Witness ==
    /\ Len(files) = 2
    /\ files[1].telegram_user_id # files[2].telegram_user_id
    /\ \A i \in DOMAIN files :
          get_file_by_id(files, files[i].id, files[i].telegram_user_id) = <<files[i]>>

\* C8 (add_file checks the owner), the claim as stated: every file row carries
\* the telegram_id of the users row its user_id names.
C8_FilesOwnedByTheirUser ==
    \A i \in DOMAIN files :
        \E j \in DOMAIN users :
            /\ users[j].id = files[i].user_id
            /\ users[j].telegram_id = files[i].telegram_user_id

\* the rows of file id fid that owner key B owns
OwnedRows(fid, B) ==
    {i \in DOMAIN files : files[i].id = fid /\ files[i].telegram_user_id = B}

\* C9 (a refused delete changes nothing): a delete_file step for a file id that
\* is not stored, or is stored for another owner key, returns False and leaves
\* the file rows and the blobs as they are.
C9_RefusedDeleteChangesNothing ==
    [][last'.op = "delete_file" =>
            (OwnedRows(last'.args[1], last'.args[2]) = {} =>
                /\ last'.body.value = FALSE
                /\ files' = files
                /\ blobs' = blobs)]_vars

\* C9 witness: delete_file has just returned False for a file that is stored for
\* another owner key, its blob on disk.
C9_Witness ==
    /\ last.op = "delete_file" /\ last.body.value = FALSE
    /\ \E i \in DOMAIN files :
          /\ files[i].id = last.args[1]
          /\ files[i].telegram_user_id # last.args[2]
          /\ files[i].file_path \in blobs

\* C10 (the metadata row decides): a delete_file step by the owner key of a
\* stored file returns True and leaves no row of that file id, whether the blob
\* is removed, its removal fails, or it is missing.
C10_OwnerDeleteRemovesRow ==
    [][last'.op = "delete_file" =>
            (OwnedRows(last'.args[1], last'.args[2]) # {} =>
                /\ last'.body.value = TRUE
                /\ \A j \in DOMAIN files' : files'[j].id # last'.args[1])]_vars

\* C10 witness: delete_file has just returned True although removing the blob
\* failed: the row is gone, the blob is still on disk.
C10_Witness ==
    /\ last.op = "delete_file"
    /\ last.body = [value |-> TRUE, log |-> "Error deleting file"]
    /\ \A j \in DOMAIN files : files[j].id # last.args[1]
    /\ <<"/uploads/", last.args[1]>> \in blobs

----------------------------------------------------------------------------
(* Properties of the chats of database.py.                                 *)

\* C4 (find-or-create is idempotent per pair), the claim as stated: no two chat
\* rows have the same (profile_id, telegram_user_id), and a create_chat that
\* follows a create_chat with the same listing and owner key (absent or any
\* integer) returns the same chat id.
C4_ChatFindOrCreateIdempotent ==
    /\ [](\A i, j \in DOMAIN chats :
            (/\ chats[i].profile_id = chats[j].profile_id
             /\ chats[i].telegram_user_id = chats[j].telegram_user_id) => i = j)
    /\ [][(last.op = "create_chat" /\ last'.op = "create_chat"
            /\ last'.args = last.args) => last'.body[1].id = last.body[1].id]_vars

\* C5 (anonymous and owned chats never collide), the claim as stated: a
\* create_chat or get_chat for a concrete owner key never answers the chat
\* without owner, and one without owner key never answers an owned chat, so
\* that the two calls for one listing answer different chats in either order.
C5_AnonymousAndOwnedApart ==
    (last.op \in {"create_chat", "get_chat"} /\ last.body # <<>>) =>
        (last.args[2] = NULL <=> last.body[1].telegram_user_id = NULL)

----------------------------------------------------------------------------
(* Properties of the orders of database.py.                                *)

\* the instant a timestamp names
Instant(t) == (byte(t[1]) - byte("0")) * 10 + (byte(t[2]) - byte("0"))

\* the orders a sweep with the cutoff is to remove: unpaid, with an expiry, and
\* that expiry earlier than the cutoff
Expired(rows, cutoff_time) ==
    {i \in DOMAIN rows :
        /\ rows[i].status = "unpaid"
        /\ rows[i].expires_at # NULL
        /\ Instant(the(rows[i].expires_at)) < Instant(cutoff_time)}

\* C7 (order reaping is exact): a delete_expired_orders(cutoff) step removes the
\* unpaid orders whose expiry is set and earlier than the cutoff, leaves every
\* other order as it is and in place, and returns the number removed.
C7_ReapingIsExact ==
    [][last'.op = "delete_expired_orders" =>
            LET gone == Expired(orders, last'.args[1])
                kept == SelectSeq([i \in DOMAIN orders |-> i], LAMBDA i : i \notin gone)
            IN /\ orders' = [k \in DOMAIN kept |-> orders[kept[k]]]
               /\ last'.body = Cardinality(gone)]_vars

\* C7 witness: a sweep has just removed one order (the first) and kept a paid
\* order that expired before the cutoff.
C7_Witness ==
    /\ last.op = "delete_expired_orders" /\ last.body = 1
    /\ Len(orders) = 1
    /\ orders[1].id = 2
    /\ orders[1].status = "paid"
    /\ orders[1].expires_at # NULL
    /\ Instant(the(orders[1].expires_at)) < Instant(last.args[1])

\* the row of the order with the id in a table, as a set
OrderOf(rows, order_id) == {rows[i] : i \in {j \in DOMAIN rows : rows[j].id = order_id}}

\* C18 (order status): create_order appends an order with status 'unpaid' and
\* changes no other; update_order and delete_expired_orders leave the status of
\* every order that stays as it was, and never remove an order whose status is
\* not 'unpaid'; update_order leaves the table's other orders as they are and of
\* the order addressed changes amount and expires_at only.
C18_StatusOnlyLeavesUnpaid ==
    [][/\ last'.op = "create_order" =>
            /\ last'.body[1].status = "unpaid"
            /\ orders' = Append(orders, last'.body[1])
       /\ last'.op \in {"update_order", "delete_expired_orders"} =>
            \A i \in DOMAIN orders :
                /\ \A o \in OrderOf(orders', orders[i].id) : o.status = orders[i].status
                /\ orders[i].status # "unpaid" => OrderOf(orders', orders[i].id) # {}
       /\ last'.op = "update_order" =>
            /\ DOMAIN orders' = DOMAIN orders
            /\ \A i \in DOMAIN orders :
                  IF orders[i].id = last'.args[1]
                  THEN orders'[i] = [orders[i] EXCEPT !.amount = orders'[i].amount,
                                                      !.expires_at = orders'[i].expires_at]
                  ELSE orders'[i] = orders[i]]_vars

\* C18 witness: update_order has just changed amount and expiry of a paid
\* order, which is still paid.
C18_Witness ==
    /\ last.op = "update_order" /\ last.body = TRUE
    /\ \E o \in OrderOf(orders, last.args[1]) :
          o.status = "paid" /\ o.amount = 20 /\ o.expires_at # NULL

----------------------------------------------------------------------------
(* Properties of the admin handlers' error responses.                      *)

\* C13 (a listing needs a stored photo): every stored listing has a photo; a
\* create_profile request none of whose photos gets stored is answered 400
\* without saving, whatever the document holds; and a create_profile step
\* answered 400 leaves the document as it is, one answered 200 stores a listing
\* with a photo.
C13_PhotoRequired ==
    /\ [](/\ \A i \in DOMAIN data.profiles : data.profiles[i].photos # <<>>
          /\ \A name \in Names, photos \in PhotoForms :
                stored_urls(photos) = <<>> =>
                    LET r == create_profile_result(data, name, photos)
                    IN r.status = 400 /\ ~r.saved)
    /\ [][last'.op = "create_profile" =>
            /\ last'.status \in {200, 400}
            /\ last'.status = 400 => data' = data
            /\ last'.status = 200 => last'.body.photos # <<>>]_vars

\* C13 witness: create_profile has just been refused with 400, listings stored.
C13_Witness ==
    /\ last.op = "create_profile" /\ last.status = 400
    /\ data.profiles # <<>>

\* C14 (an empty reply is a 400), the claim as stated: for every stored listing
\* a reply whose text is empty after stripping and that carries no file is
\* answered 400 and nothing is saved.
C14_EmptyReplyIs400 ==
    \A profile_id \in ListingIds(data), form \in Forms :
        (strip(form.text) = <<>> /\ form.files = <<>>) =>
            LET r == send_admin_reply_result(data, profile_id, form)
            IN r.status = 400 /\ ~r.saved

\* C15 (not-found is reported as not-found), the claim as stated: a
\* toggle_profile, delete_profile, send_admin_reply or send_system_message step
\* for a listing id that is not stored is answered 404 and leaves the document
\* as it is.
C15_MissingListingIs404 ==
    [][(/\ last'.op \in {"toggle_profile", "delete_profile", "send_admin_reply",
                         "send_system_message"}
        /\ last'.args[1] \notin ListingIds(data))
            => (last'.status = 404 /\ data' = data)]_vars

\* C16 (a storage failure is surfaced), the claim as stated: a step of an admin
\* handler during which save_data could not write DATA_FILE is answered 500.
C16_WriteFailureIs500 ==
    [][last'.write_failed => last'.status = 500]_vars

\* what document d holds of listing M: the listing, its chats, the messages
\* its chat shows, and its comments
Belongings(d, M) ==
    [profiles |-> SelectSeq(d.profiles, LAMBDA x : x.id = M),
     chats |-> SelectSeq(d.chats, LAMBDA c : c.profile_id = M),
     messages |-> get_chat_messages_admin(d, M),
     comments |-> SelectSeq(d.comments, LAMBDA c : c.profile_id = M)]

\* C25 (delete_profile leaves the other listings alone), the claim as stated: a
\* delete_profile(L) step leaves every other listing M, M's chat, M's messages
\* and M's comments as they were.
C25_DeleteLeavesOthers ==
    [][last'.op = "delete_profile" =>
            \A M \in ListingIds(data) \ {last'.args[1]} :
                Belongings(data', M) = Belongings(data, M)]_vars

\* C26 (message ids are unique), the claim as stated: no two stored messages
\* have the same id, and the message_id send_system_message returns is the id of
\* exactly one stored message.
C26_MessageIdsUnique ==
    /\ \A i, j \in DOMAIN data.messages :
            data.messages[i].id = data.messages[j].id => i = j
    /\ (last.op = "send_system_message" /\ last.status = 200) =>
            Cardinality({i \in DOMAIN data.messages :
                            data.messages[i].id = last.body}) = 1

\* C28 (listing ids are unique, a reused id starts clean): in every state no
\* two stored listings have the same id and every chat and every comment is of a
\* stored listing; and a create_profile step that stores a listing leaves it
\* without a chat, without a message in its chat view and without a comment,
\* whoever had its id before.
C28_ListingIdsUnique ==
    /\ [](\A i, j \in DOMAIN data.profiles :
            data.profiles[i].id = data.profiles[j].id => i = j)
    /\ [](\A i \in DOMAIN data.chats : data.chats[i].profile_id \in ListingIds(data))
    /\ [](\A i \in DOMAIN data.comments : data.comments[i].profile_id \in ListingIds(data))
    /\ [][(last'.op = "create_profile" /\ last'.status = 200 /\ ~last'.write_failed) =>
            LET id == last'.body.id
            IN /\ id \in ListingIds(data') \ ListingIds(data)
               /\ Belongings(data', id) =
                      [profiles |-> <<last'.body>>, chats |-> <<>>,
                       messages |-> <<>>, comments |-> <<>>]]_vars

\* C28 witness: create_profile has just stored a listing with id 2 again.  The
\* listing 2 before it had the chat 1 and the message 1 (and a comment, when it
\* started with one), removed with it: what is stored besides is listing 1 with
\* chat 2, message 2 and the comment 1.
C28_Witness ==
    /\ last.op = "create_profile" /\ last.status = 200 /\ last.body.id = 2
    /\ ~last.write_failed
    /\ Column(data.profiles, "id") = <<1, 2>>
    /\ data.profiles[2] = last.body
    /\ Column(data.chats, "id") = <<2>> /\ Column(data.chats, "profile_id") = <<1>>
    /\ Column(data.messages, "id") = <<2>>
    /\ data.comments = <<[id |-> 1, profile_id |-> 1]>>

\* C20 (every message belongs to exactly one chat), the claim as stated: the
\* chat_id of every stored message is the id of exactly one stored chat.
C20_MessageOfOneChat ==
    \A i \in DOMAIN data.messages :
        Cardinality({j \in DOMAIN data.chats :
                        data.chats[j].id = data.messages[i].chat_id}) = 1

----------------------------------------------------------------------------
(* Properties of calls that overlap.                                       *)

\* document d holds listing L with something of it missing, or something of L
\* without L: a cascade seen half-way
HalfDeleted(d) ==
    \/ \E i \in DOMAIN d.chats : d.chats[i].profile_id \notin ListingIds(d)
    \/ \E i \in DOMAIN d.comments : d.comments[i].profile_id \notin ListingIds(d)
    \/ \E i \in DOMAIN d.messages :
          \A j \in DOMAIN d.chats : d.chats[j].id # d.messages[i].chat_id

\* C17 (cascade atomicity under concurrent reads): whatever statement a
\* delete_profile call has reached, the document a read request loads has no
\* chat or comment of a listing that is absent and no message of a chat that is
\* absent; the file changes in the one step that ends the call, from the
\* document before the deletion to the one after it, and what a read loads is
\* the file's document or (while the file is being rewritten) the empty default.
C17_ReadsSeeWholeCascades ==
    /\ [](/\ ~HalfDeleted(load_data(data_file))
          /\ last.op \in ReadRequests => ~HalfDeleted(last.body))
    /\ [][/\ last' = last => data' = data
          /\ last'.op \in ReadRequests => last'.body \in {data, default_data}
          /\ last'.op = "delete_profile" =>
                data' = delete_profile_result(data, last'.args[1]).data]_vars

\* C17 witness: a read request has been served while a delete_profile call had
\* removed the listing and its chats from its copy and not yet its messages,
\* and the read loaded the listing with its chat and message.
C17_Witness ==
    /\ last.op \in ReadRequests
    /\ pending[1].op = "delete_profile" /\ pending[1].pc = "messages"
    /\ last.body = data
    /\ \E i \in DOMAIN data.chats :
          /\ data.chats[i].profile_id = pending[1].profile_id
          /\ data.messages # <<>>
    /\ HalfDeleted(pending[1].data)

\* C21 (the cascade's order), the claim as stated: in the document a
\* delete_profile call is working on, the listing is removed last: while a
\* message of its chats, one of its chats or one of its comments is still
\* there, so is the listing; no chat is there whose listing is already removed.
C21_ListingRemovedLast ==
    \A w \in Workers :
        pending[w].op = "delete_profile" =>
            LET d == pending[w].data
            IN /\ \A i \in DOMAIN d.chats : d.chats[i].profile_id \in ListingIds(d)
               /\ \A i \in DOMAIN d.comments : d.comments[i].profile_id \in ListingIds(d)
               /\ \A i \in DOMAIN d.messages :
                     \E j \in DOMAIN d.chats : d.chats[j].id = d.messages[i].chat_id

\* C22 (store operations are all-or-nothing): a call that ends with an
\* exception leaves every table as it was committed before, whatever it wrote,
\* and the exception reaches the caller; a call that returns leaves the tables
\* as it wrote them; and before either, nothing of what it wrote is in the
\* tables.
C22_AllOrNothing ==
    [][/\ (last' # last /\ last'.op # "blob_store_write") =>
            \E w \in Workers :
                /\ pending[w] # Idle /\ pending'[w] = Idle
                /\ last'.status = "raised" => Tables' = Tables
                /\ last'.status = "returned" =>
                      (Tables' = pending[w].written /\ last'.body = pending[w].value)
       /\ last' = last => Tables' = Tables]_vars

\* C22 witness: delete_file has just ended with an exception after its DELETE;
\* the row it deleted is in the table.
C22_Witness ==
    /\ last.op = "delete_file" /\ last.status = "raised"
    /\ \E i \in DOMAIN files :
          files[i].id = last.args[1] /\ files[i].telegram_user_id = last.args[2]

RECURSIVE IsPrefix(_, _)
\* sequence s is the beginning of sequence t
IsPrefix(s, t) ==
    \/ s = <<>>
    \/ t # <<>> /\ Head(s) = Head(t) /\ IsPrefix(Tail(s), Tail(t))

\* the lists of the document
Lists == {"profiles", "chats", "messages", "comments", "promocodes"}

\* C29 (an unreadable data file costs no data), the claim as stated: a step of
\* a handler that only adds (create_profile, send_system_message,
\* create_admin_promocode) keeps every list persisted before as the beginning of
\* the list persisted after, and a delete_profile step keeps the other listings
\* and the promocodes, whether or not the handler could read the data file.
C29_UnreadableKeepsData ==
    /\ [][last'.op \in {"create_profile", "send_system_message", "create_admin_promocode"} =>
            \A k \in Lists : IsPrefix(data[k], data'[k])]_vars
    /\ [][last'.op = "delete_profile" =>
            /\ data'.promocodes = data.promocodes
            /\ data'.profiles = without(data.profiles, "id", last'.args[1])]_vars

\* C24 (no lost update across an in-flight reply), the claim as stated: the
\* step in which a send_admin_reply saves keeps what the requests served while
\* it was suspended persisted: the listings, comments and promocodes of the
\* file as they are, its chats and messages with at most the reply's added.
C24_ReplyKeepsOtherUpdates ==
    [][last'.op = "send_admin_reply" =>
            /\ data'.profiles = data.profiles
            /\ data'.comments = data.comments
            /\ data'.promocodes = data.promocodes
            /\ IsPrefix(data.chats, data'.chats)
            /\ IsPrefix(data.messages, data'.messages)]_vars

\* C19 (chat uniqueness under concurrency), the claim as stated: whatever the
\* interleaving of the statements of create_chat calls on separate
\* connections, no two chat rows have the same (profile_id, telegram_user_id).
C19_OneChatPerPairConcurrently ==
    \A i, j \in DOMAIN chats :
        (/\ chats[i].profile_id = chats[j].profile_id
         /\ chats[i].telegram_user_id = chats[j].telegram_user_id) => i = j

----------------------------------------------------------------------------
(* Properties of the users of database.py.                                 *)

\* C11 (identity keys are validated), the claim as stated: no users row has a
\* telegram_id that is not positive, and a get_or_create_user call with such a
\* telegram_id ends in an error.
C11_OnlyPositiveIdentities ==
    /\ \A i \in DOMAIN users : users[i].telegram_id > 0
    /\ (last.op = "get_or_create_user" /\ last.args[1] <= 0) => last.status # "returned"

\* the rows of a users table with the telegram_id
RowsOf(rows, telegram_id) == {i \in DOMAIN rows : rows[i].telegram_id = telegram_id}

\* C12 (user upsert): there is one users row per telegram_id; a
\* get_or_create_user step for a telegram_id without row appends one row with
\* the attributes of the call; a step for a telegram_id with a row keeps the
\* row's id and created_at and sets its attributes to those of the call; either
\* way the row is returned, no other row changes and none disappears.
C12_UserUpsert ==
    /\ [](\A i, j \in DOMAIN users : users[i].telegram_id = users[j].telegram_id => i = j)
    /\ [][last'.op = "get_or_create_user" =>
            LET telegram_id == last'.args[1]
                old == RowsOf(users, telegram_id)
                new == RowsOf(users', telegram_id)
            IN /\ Cardinality(new) = 1
               /\ \A n \in new :
                     /\ users'[n].username = last'.args[2]
                     /\ users'[n].is_premium = (IF last'.args[3] THEN 1 ELSE 0)
                     /\ last'.body = users'[n]
                     /\ \A o \in old : /\ n = o
                                        /\ users'[n].id = users[o].id
                                        /\ users'[n].created_at = users[o].created_at
                     /\ old = {} => (/\ n = Len(users) + 1
                                     /\ \A i \in DOMAIN users : users[i].id # users'[n].id)
               /\ \A i \in DOMAIN users : i \notin old => users'[i] = users[i]
               /\ (last.op = "get_or_create_user" /\ last.args = last'.args)
                     => (/\ last'.body.id = last.body.id
                         /\ last'.body.username = last.body.username
                         /\ last'.body.is_premium = last.body.is_premium)]_vars

\* C12 witness: a second sign-in of a telegram_id with other attributes, at a
\* later time, has kept the row's id and created_at and set the attributes.
C12_Witness ==
    /\ last.op = "get_or_create_user"
    /\ Len(users) = 2
    /\ last.body = users[1]
    /\ users[1].created_at = 1 /\ users[1].last_login = 2
    /\ users[1].username = "v" /\ users[1].is_premium = 1

====
